---------------------------- MODULE Spec2Model ----------------------------
(***************************************************************************)
(* A model of the smartfilecmd C++ backend (src/cpp_backend): the pattern  *)
(* matcher, the directory-safety policy, command validation and the four   *)
(* operation handlers acting on a small POSIX-like filesystem.             *)
(*                                                                         *)
(* Strings of the program are TLA+ strings; a character is a string of     *)
(* length one.  A path handed to the operating system is a string; the     *)
(* filesystem itself is keyed by resolved paths (sequences of names).      *)
(***************************************************************************)
EXTENDS Integers, Sequences, FiniteSets, TLC

VARIABLES
    fs,        \* the filesystem: [dirs, files, noaccess]
    order,     \* the order in which directory entries are enumerated
    cwd,       \* working directory of the process (a resolved path)
    home,      \* value of the HOME environment variable, or NoHome
    cmd,       \* the Command of the last invocation
    failing,   \* files whose operation the environment refuses in this run
    result,    \* the FileOpResult the last invocation returned
    runs,      \* number of invocations so far
    fsBefore,  \* the filesystem as it was when the last invocation began
    attempts,  \* per-file operations the last batch attempted, in order
    arg,       \* arguments of a library function called on its own
    ret        \* <<>> before the call, <<value>> once it has returned

vars == <<fs, order, cwd, home, cmd, failing, result, runs, fsBefore,
          attempts, arg, ret>>

---------------------------------------------------------------------------
(* std::string helpers *)

CharAt(s, i) == SubSeq(s, i, i)

Substr(s, i) == SubSeq(s, i, Len(s))                  \* s.substr(i-1)

starts_with(s, p) == Len(p) <= Len(s) /\ SubSeq(s, 1, Len(p)) = p

ends_with(s, p) ==
    Len(p) <= Len(s) /\ SubSeq(s, Len(s) - Len(p) + 1, Len(s)) = p

\* s.find(t) != npos
Contains(s, t) ==
    \E i \in 1..(Len(s) - Len(t) + 1) : SubSeq(s, i, i + Len(t) - 1) = t

\* s.find(t, from-1), 1-based; 0 stands for npos
RECURSIVE FindFrom(_, _, _)
FindFrom(s, t, from) ==
    IF from + Len(t) - 1 > Len(s) THEN 0
    ELSE IF SubSeq(s, from, from + Len(t) - 1) = t THEN from
    ELSE FindFrom(s, t, from + 1)

UpperCase == "ABCDEFGHIJKLMNOPQRSTUVWXYZ"
LowerCase == "abcdefghijklmnopqrstuvwxyz"

\* std::tolower in the "C" locale, as regex_traits::translate_nocase uses it
CaseFold ==
    [c \in {CharAt(UpperCase, i) : i \in 1..Len(UpperCase)} |->
        CharAt(LowerCase, FindFrom(UpperCase, c, 1))]

ToLower(c) == IF c \in DOMAIN CaseFold THEN CaseFold[c] ELSE c

\* all strings over the characters of alphabet, of length at most n
RECURSIVE StringsUpTo(_, _)
StringsUpTo(alphabet, n) ==
    IF n = 0 THEN {""}
    ELSE LET shorter == StringsUpTo(alphabet, n - 1)
         IN  shorter \cup {s \o c : s \in shorter, c \in alphabet}

---------------------------------------------------------------------------
(* PatternMatcher: utils.cpp matches_pattern / matches_glob_pattern *)

\* the loop of utils.cpp:126-129: replace each "**" by ".*", resuming the
\* search two characters after the start of the replacement
RECURSIVE ReplaceDoubleStar(_, _)
ReplaceDoubleStar(s, from) ==
    LET pos == FindFrom(s, "**", from)
    IN  IF pos = 0 THEN s
        ELSE ReplaceDoubleStar(
                 SubSeq(s, 1, pos - 1) \o ".*" \o Substr(s, pos + 2), pos + 2)

RegexSpecial == "()[]{}.+^$|\\"

\* utils.cpp:133-143: one character of the pattern to regex text
EscapeChar(c) ==
    IF c = "*" THEN ".*"
    ELSE IF c = "?" THEN "."
    ELSE IF Contains(RegexSpecial, c) THEN "\\" \o c
    ELSE c

RECURSIVE EscapeAll(_)
EscapeAll(s) ==
    IF s = "" THEN "" ELSE EscapeChar(Head(s)) \o EscapeAll(Tail(s))

\* the regular expression text that matches_glob_pattern compiles
GlobToRegex(pattern) == EscapeAll(ReplaceDoubleStar(pattern, 1))

\* ECMAScript line terminators: '.' matches any character but these
LineTerminators == {"\n", "\r"}

\* std::regex_match(s, std::regex(re, icase)) for the regular expressions the
\* translation can emit: ordinary characters, identity escapes \c, the
\* wildcard '.', and any of these followed by '*'.  The whole of s must match.
RECURSIVE RegexMatch(_, _)
RegexMatch(s, re) ==
    IF re = "" THEN s = ""
    ELSE
        LET escaped == Head(re) = "\\" /\ Len(re) >= 2
            atomLen == IF escaped THEN 2 ELSE 1
            lit     == IF escaped THEN CharAt(re, 2) ELSE Head(re)
            any     == ~escaped /\ Head(re) = "."
            after   == Substr(re, atomLen + 1)
            starred == after # "" /\ Head(after) = "*"
            rest    == IF starred THEN Tail(after) ELSE after
            AtomMatches(c) ==
                IF any THEN c \notin LineTerminators
                ELSE ToLower(c) = ToLower(lit)
        IN  IF starred
            THEN \/ RegexMatch(s, rest)
                 \/ s # "" /\ AtomMatches(Head(s)) /\ RegexMatch(Tail(s), re)
            ELSE s # "" /\ AtomMatches(Head(s)) /\ RegexMatch(Tail(s), rest)

\* every regex-special character is escaped, so the expression always
\* compiles and the substring fallback of the catch branch is never taken
matches_glob_pattern(filename, pattern) ==
    RegexMatch(filename, GlobToRegex(pattern))

\* a matcher that compares an extension pattern with the front of the name
matches_pattern_prefix(filename, pattern) ==
    IF pattern = "" THEN TRUE
    ELSE IF Contains(pattern, "*") \/ Contains(pattern, "?")
         THEN matches_glob_pattern(filename, pattern)
    ELSE IF Head(pattern) = "." THEN starts_with(filename, pattern)
    ELSE filename = pattern

matches_pattern(filename, pattern) ==
    IF pattern = "" THEN TRUE
    ELSE IF Contains(pattern, "*") \/ Contains(pattern, "?")
         THEN matches_glob_pattern(filename, pattern)
    ELSE IF Head(pattern) = "." THEN ends_with(filename, pattern)
    ELSE filename = pattern


---------------------------------------------------------------------------
(* PathSafety: utils.cpp is_safe_directory / is_system_directory / expand_path *)

\* std::filesystem::path == "/": paths compare element by element, so every
\* non-empty run of separators is the root directory and equals "/"
PathIsSlash(p) == p # "" /\ \A i \in 1..Len(p) : CharAt(p, i) = "/"

system_dirs ==
    <<"/bin", "/sbin", "/usr", "/etc", "/var", "/lib", "/opt",
      "C:\\Windows", "C:\\Program Files", "C:\\Program Files (x86)">>

\* path_str.find(sys_dir) == 0 for some entry of the list
is_system_directory(p) ==
    \E i \in 1..Len(system_dirs) : starts_with(p, system_dirs[i])

\* on a POSIX build "C:\" and "D:\" are single file names, equal only to
\* themselves
is_safe_directory(p) ==
    IF PathIsSlash(p) \/ p = "C:\\" \/ p = "D:\\" THEN FALSE
    ELSE IF is_system_directory(p) THEN FALSE
    ELSE TRUE

\* getenv("HOME"): a null pointer, or a string
NoHome == [isSet |-> FALSE, value |-> ""]
HomeIs(dir) == [isSet |-> TRUE, value |-> dir]

\* std::filesystem::path operator/ : an absolute right-hand side replaces the
\* left one, otherwise a separator is inserted unless one is already there
PathAppend(a, b) ==
    IF starts_with(b, "/") THEN b
    ELSE IF a = "" \/ ends_with(a, "/") THEN a \o b
    ELSE a \o "/" \o b

expand_path(path_string, homeEnv) ==
    IF starts_with(path_string, "~/") /\ homeEnv.isSet
    THEN PathAppend(homeEnv.value, Substr(path_string, 3))
    ELSE path_string

---------------------------------------------------------------------------
(* CommandExecutor: actions.cpp validate_command *)

\* a validation that is content with either directory of a move or copy
validate_command_either(c) ==
    IF c.action = "" THEN FALSE
    ELSE IF c.action = "move" \/ c.action = "copy"
         THEN c.source # "" \/ c.destination # ""
    ELSE IF c.action = "delete" THEN c.source # ""
    ELSE IF c.action = "create_folder" THEN c.destination # ""
    ELSE FALSE

validate_command(c) ==
    IF c.action = "" THEN FALSE
    ELSE IF c.action = "move" \/ c.action = "copy"
         THEN c.source # "" /\ c.destination # ""
    ELSE IF c.action = "delete" THEN c.source # ""
    ELSE IF c.action = "create_folder" THEN c.destination # ""
    ELSE FALSE

Command(a, p, s, d, dry, force, rec, verbose) ==
    [action |-> a, pattern |-> p, source |-> s, destination |-> d,
     dry_run |-> dry, force |-> force, recursive |-> rec, verbose |-> verbose]

---------------------------------------------------------------------------
(* The filesystem the std::filesystem calls act on.                        *)
(* dirs: the directories, files: regular file -> content, both keyed by    *)
(* resolved path (sequence of names, <<>> the root); noaccess: directories *)
(* the process may neither search, list nor modify (mode 000).             *)

Root == <<>>

Parent(node) == IF node = Root THEN Root ELSE SubSeq(node, 1, Len(node) - 1)

IsFile(fsys, node) == node \in DOMAIN fsys.files
IsDir(fsys, node) == node \in fsys.dirs

\* the names between the separators of a path string, empty ones dropped
RECURSIVE SplitPath(_, _)
SplitPath(s, cur) ==
    IF s = "" THEN (IF cur = "" THEN <<>> ELSE <<cur>>)
    ELSE IF Head(s) = "/"
         THEN (IF cur = "" THEN <<>> ELSE <<cur>>) \o SplitPath(Tail(s), "")
    ELSE SplitPath(Tail(s), cur \o Head(s))

\* kernel path walk: every directory stepped through must exist, be a
\* directory and be searchable; "." stays, ".." goes to the parent
RECURSIVE Walk(_, _, _)
Walk(fsys, cur, segs) ==
    IF segs = <<>> THEN [err |-> "ok", node |-> cur]
    ELSE IF IsFile(fsys, cur) THEN [err |-> "ENOTDIR", node |-> cur]
    ELSE IF ~IsDir(fsys, cur) THEN [err |-> "ENOENT", node |-> cur]
    ELSE IF cur \in fsys.noaccess THEN [err |-> "EACCES", node |-> cur]
    ELSE LET seg  == Head(segs)
             next == IF seg = "." THEN cur
                     ELSE IF seg = ".." THEN Parent(cur)
                     ELSE Append(cur, seg)
         IN  Walk(fsys, next, Tail(segs))

\* stat(2) of a path string: relative paths start at the working
\* directory.  kind is "dir", "file" or "none".
StatOf(fsys, w) ==
    [err  |-> IF w.err = "ok" /\ ~IsDir(fsys, w.node) /\ ~IsFile(fsys, w.node)
              THEN "ENOENT" ELSE w.err,
     node |-> w.node,
     reached |-> w.err = "ok",             \* every directory on the way was passed
     kind |-> IF w.err # "ok" THEN "none"
              ELSE IF IsDir(fsys, w.node) THEN "dir"
              ELSE IF IsFile(fsys, w.node) THEN "file"
              ELSE "none"]

Stat(fsys, wd, p) ==
    IF p = "" THEN [err |-> "ENOENT", node |-> Root, reached |-> FALSE,
                    kind |-> "none"]
    ELSE StatOf(fsys, Walk(fsys, IF Head(p) = "/" THEN Root ELSE wd,
                           SplitPath(p, "")))

\* status() reports ENOENT and ENOTDIR as "not found"; any other error makes
\* the throwing overloads of exists()/is_directory() raise filesystem_error
StatusThrows(st) == st.err \notin {"ok", "ENOENT", "ENOTDIR"}

\* names of the entries of a directory, in enumeration order
Entries(fsys, ord, node) ==
    SelectSeq(ord, LAMBDA n : IsDir(fsys, Append(node, n))
                              \/ IsFile(fsys, Append(node, n)))

\* path::filename(): what follows the last separator
RECURSIVE filename(_)
filename(p) ==
    IF p = "" \/ ends_with(p, "/") THEN ""
    ELSE filename(SubSeq(p, 1, Len(p) - 1)) \o CharAt(p, Len(p))

\* path::parent_path(): the path without its last element, lexically
RECURSIVE StripSlashes(_)
StripSlashes(p) ==
    IF ends_with(p, "/") THEN StripSlashes(SubSeq(p, 1, Len(p) - 1)) ELSE p

parent_path(p) ==
    IF PathIsSlash(p) THEN p
    ELSE LET dir == SubSeq(p, 1, Len(p) - Len(filename(p)))
         IN  IF PathIsSlash(dir) THEN dir ELSE StripSlashes(dir)

---------------------------------------------------------------------------
(* DirectoryScanner: utils.cpp scan_directory / scan_directory_recursive.  *)
(* A scan yields [threw, files]: threw when an exception leaves the        *)
(* function, files the path strings collected.                             *)

ScanThrew == [threw |-> TRUE, files |-> <<>>]
Scanned(files) == [threw |-> FALSE, files |-> files]

\* the loop over directory_iterator(dir_path): regular files only
ListFiles(fsys, ord, node, dir_path) ==
    LET names == SelectSeq(Entries(fsys, ord, node),
                           LAMBDA n : IsFile(fsys, Append(node, n)))
    IN  [i \in 1..Len(names) |-> PathAppend(dir_path, names[i])]

\* a scan that collects every entry of the directory, whatever its type
scan_directory_entries(fsys, ord, wd, dir_path) ==
    LET st == Stat(fsys, wd, dir_path)
    IN  IF StatusThrows(st) THEN ScanThrew
        ELSE IF st.kind # "dir" THEN Scanned(<<>>)
        ELSE IF st.node \in fsys.noaccess THEN Scanned(<<>>)
        ELSE Scanned([i \in 1..Len(Entries(fsys, ord, st.node)) |->
                         PathAppend(dir_path, Entries(fsys, ord, st.node)[i])])

scan_directory(fsys, ord, wd, dir_path) ==
    LET st == Stat(fsys, wd, dir_path)
    IN  IF StatusThrows(st) THEN ScanThrew
        ELSE IF st.kind # "dir" THEN Scanned(<<>>)
        ELSE IF st.node \in fsys.noaccess THEN Scanned(<<>>)
        ELSE Scanned(ListFiles(fsys, ord, st.node, dir_path))

\* recursive_directory_iterator: depth first, a directory is entered as soon
\* as it is met; a directory that cannot be opened makes the increment
\* throw, which ends the loop with what was collected (stopped)
RECURSIVE RecList(_, _, _, _, _)
RecList(fsys, ord, node, dir_path, names) ==
    IF names = <<>> THEN [files |-> <<>>, stopped |-> FALSE]
    ELSE LET child == Append(node, Head(names))
             cpath == PathAppend(dir_path, Head(names))
         IN  IF IsFile(fsys, child)
             THEN LET r == RecList(fsys, ord, node, dir_path, Tail(names))
                  IN  [files |-> <<cpath>> \o r.files, stopped |-> r.stopped]
             ELSE IF child \in fsys.noaccess
             THEN [files |-> <<>>, stopped |-> TRUE]
             ELSE LET sub == RecList(fsys, ord, child, cpath,
                                     Entries(fsys, ord, child))
                  IN  IF sub.stopped THEN sub
                      ELSE LET r == RecList(fsys, ord, node, dir_path, Tail(names))
                           IN  [files |-> sub.files \o r.files,
                                stopped |-> r.stopped]

scan_directory_recursive(fsys, ord, wd, dir_path) ==
    LET st == Stat(fsys, wd, dir_path)
    IN  IF StatusThrows(st) THEN ScanThrew
        ELSE IF st.kind # "dir" THEN Scanned(<<>>)
        ELSE IF st.node \in fsys.noaccess THEN Scanned(<<>>)
        ELSE Scanned(RecList(fsys, ord, st.node, dir_path,
                             Entries(fsys, ord, st.node)).files)

---------------------------------------------------------------------------
(* The mutating std::filesystem calls.  Each yields [ok, fs]: ok is FALSE  *)
(* when the call throws filesystem_error, and then fs is unchanged.        *)
(* locked: files on which the environment refuses the operation.           *)

Failed(fsys) == [ok |-> FALSE, fs |-> fsys]
Done(fsys) == [ok |-> TRUE, fs |-> fsys]

WithoutFile(files, node) == [n \in DOMAIN files \ {node} |-> files[n]]
WithFile(files, node, content) ==
    [n \in DOMAIN files \cup {node} |->
        IF n = node THEN content ELSE files[n]]

\* std::filesystem::rename(from, to)
rename(fsys, wd, locked, from, to) ==
    LET sf == Stat(fsys, wd, from)
        st == Stat(fsys, wd, to)
    IN  IF sf.kind # "file" \/ sf.node \in locked THEN Failed(fsys)
        ELSE IF ~st.reached \/ st.kind = "dir" THEN Failed(fsys)
        ELSE IF st.node = sf.node THEN Done(fsys)
        ELSE Done([fsys EXCEPT !.files =
                 WithFile(WithoutFile(@, sf.node), st.node, fsys.files[sf.node])])

\* std::filesystem::copy_file(from, to, copy_options::overwrite_existing)
copy_file(fsys, wd, locked, from, to) ==
    LET sf == Stat(fsys, wd, from)
        st == Stat(fsys, wd, to)
    IN  IF sf.kind # "file" \/ sf.node \in locked THEN Failed(fsys)
        ELSE IF ~st.reached \/ st.kind = "dir" THEN Failed(fsys)
        ELSE IF st.node = sf.node THEN Failed(fsys)      \* equivalent files
        ELSE Done([fsys EXCEPT !.files =
                 WithFile(@, st.node, fsys.files[sf.node])])

\* std::filesystem::remove(p): a missing file is no error
remove(fsys, wd, locked, p) ==
    LET st == Stat(fsys, wd, p)
    IN  IF StatusThrows(st) THEN Failed(fsys)
        ELSE IF st.kind = "none" THEN Done(fsys)
        ELSE IF st.node \in locked THEN Failed(fsys)
        ELSE IF st.kind = "file"
        THEN Done([fsys EXCEPT !.files = WithoutFile(@, st.node)])
        ELSE IF \E n \in fsys.dirs \cup DOMAIN fsys.files :
                    n # st.node /\ Parent(n) = st.node
        THEN Failed(fsys)                                \* directory not empty
        ELSE Done([fsys EXCEPT !.dirs = @ \ {st.node}])

\* std::filesystem::create_directories(p): creates what is missing along p
RECURSIVE MakeDirs(_, _, _, _)
MakeDirs(orig, fsys, cur, segs) ==
    IF IsFile(fsys, cur) THEN Failed(orig)               \* ENOTDIR
    ELSE IF segs = <<>> THEN Done(fsys)
    ELSE IF cur \in fsys.noaccess THEN Failed(orig)      \* EACCES
    ELSE LET seg  == Head(segs)
             next == IF seg = "." THEN cur
                     ELSE IF seg = ".." THEN Parent(cur)
                     ELSE Append(cur, seg)
             made == IF IsDir(fsys, next) \/ IsFile(fsys, next) THEN fsys
                     ELSE [fsys EXCEPT !.dirs = @ \cup {next}]
         IN  MakeDirs(orig, made, next, Tail(segs))

create_directories(fsys, wd, p) ==
    IF p = "" THEN Failed(fsys)
    ELSE MakeDirs(fsys, fsys, IF Head(p) = "/" THEN Root ELSE wd, SplitPath(p, ""))

---------------------------------------------------------------------------
(* CommandExecutor: the operation handlers of actions.cpp.  A handler      *)
(* yields [result, fs, attempts]: the FileOpResult it returns, the         *)
(* filesystem it leaves, and the per-file calls its loop made.             *)

\* a default-constructed time_point: the clock's epoch, in ticks
Epoch == 0

\* utils.hpp: a default-constructed FileOpResult
FileOpResult ==
    [success |-> FALSE, operation |-> "", message |-> "", error_message |-> "",
     files_scanned |-> 0, files_matched |-> 0, files_affected |-> 0,
     errors |-> <<>>, start_time |-> Epoch, end_time |-> Epoch]

What == "filesystem error"                    \* e.what()

Returned(res, fsys, log) == [result |-> res, fs |-> fsys, attempts |-> log]

\* "Filter files by pattern": the pattern is matched against the file name
FilterByPattern(files, pattern) ==
    SelectSeq(files, LAMBDA f : matches_pattern(filename(f), pattern))

ScanSource(c, fsys, ord, wd, source_path) ==
    IF c.recursive THEN scan_directory_recursive(fsys, ord, wd, source_path)
    ELSE scan_directory(fsys, ord, wd, source_path)

\* the filesystem call made for one matched file
FileOp(op, fsys, wd, locked, file, dest_path) ==
    IF op = "move"
    THEN rename(fsys, wd, locked, file, PathAppend(dest_path, filename(file)))
    ELSE IF op = "copy"
    THEN copy_file(fsys, wd, locked, file, PathAppend(dest_path, filename(file)))
    ELSE remove(fsys, wd, locked, file)

Verb(op) == IF op = "move" THEN "move"
            ELSE IF op = "copy" THEN "copy" ELSE "delete"

\* a loop body that counts a file even when its call threw
Recorded_counting_failures(op, file, ok, acc) ==
    IF ok
    THEN [acc EXCEPT !.count = @ + 1,
                     !.attempts = Append(@, [file |-> file, ok |-> TRUE])]
    ELSE [acc EXCEPT !.count = @ + 1,
                     !.errors = Append(@,
                         "Failed to " \o Verb(op) \o " " \o file \o ": " \o What),
                     !.attempts = Append(@, [file |-> file, ok |-> FALSE])]

\* what the loop body leaves in the batch record for one file: a call that
\* returned counts, a call that threw is caught and recorded in errors
Recorded(op, file, ok, acc) ==
    IF ok
    THEN [acc EXCEPT !.count = @ + 1,
                     !.attempts = Append(@, [file |-> file, ok |-> TRUE])]
    ELSE [acc EXCEPT !.errors = Append(@,
                         "Failed to " \o Verb(op) \o " " \o file \o ": " \o What),
                     !.attempts = Append(@, [file |-> file, ok |-> FALSE])]

RECURSIVE BatchLoop(_, _, _, _, _, _, _)

\* a loop that gives up at the first file whose call throws
AfterFileOp_abort(op, wd, locked, files, dest_path, acc, r) ==
    IF r.ok
    THEN BatchLoop(op, r.fs, wd, locked, Tail(files), dest_path,
                   Recorded(op, Head(files), r.ok, acc))
    ELSE [Recorded(op, Head(files), r.ok, acc) EXCEPT !.fs = r.fs]

\* the end of one iteration: whatever the call did, the loop goes on with
\* the next file
AfterFileOp(op, wd, locked, files, dest_path, acc, r) ==
    BatchLoop(op, r.fs, wd, locked, Tail(files), dest_path,
              Recorded(op, Head(files), r.ok, acc))

\* the loop over matching_files
BatchLoop(op, fsys, wd, locked, files, dest_path, acc) ==
    IF files = <<>> THEN [acc EXCEPT !.fs = fsys]
    ELSE AfterFileOp(op, wd, locked, files, dest_path, acc,
                     FileOp(op, fsys, wd, locked, Head(files), dest_path))

RunBatch(op, fsys, wd, locked, files, dest_path) ==
    BatchLoop(op, fsys, wd, locked, files, dest_path,
              [fs |-> fsys, count |-> 0, errors |-> <<>>, attempts |-> <<>>])

\* "Move files": the batch, then the summary
Act(op, past, fsys, wd, locked, now, dest_path, counted, b) ==
    Returned([counted EXCEPT
                 !.files_affected = b.count,
                 !.errors = b.errors,
                 !.message = "Successfully " \o past.done \o " "
                             \o ToString(b.count) \o " files",
                 !.success = TRUE,
                 !.end_time = now[2]], b.fs, b.attempts)

\* a handler that runs the batch whether or not dry_run is set
PreviewOrAct_wet(op, past, c, fsys, wd, locked, now, dest_path, res, files, matching_files) ==
    Act(op, past, fsys, wd, locked, now, dest_path,
        [res EXCEPT !.files_scanned = Len(files),
                    !.files_matched = Len(matching_files),
                    !.message = "Would " \o Verb(op) \o " "
                                \o ToString(Len(matching_files)) \o " files"],
        RunBatch(op, fsys, wd, locked, matching_files, dest_path))

\* the counters, then the preview of a dry run or the batch
PreviewOrAct(op, past, c, fsys, wd, locked, now, dest_path, res, files, matching_files) ==
    IF c.dry_run
    THEN Returned([res EXCEPT
                      !.files_scanned = Len(files),
                      !.files_matched = Len(matching_files),
                      !.message = "Would " \o Verb(op) \o " "
                                  \o ToString(Len(matching_files)) \o " files",
                      !.success = TRUE], fsys, <<>>)
    ELSE Act(op, past, fsys, wd, locked, now, dest_path,
             [res EXCEPT !.files_scanned = Len(files),
                         !.files_matched = Len(matching_files)],
             RunBatch(op, fsys, wd, locked, matching_files, dest_path))

\* "Filter files by pattern"; an exception of the scan reaches the outer catch
FilterAct(op, past, c, fsys, wd, locked, now, dest_path, res, scan) ==
    IF scan.threw
    THEN Returned([res EXCEPT !.success = FALSE,
                      !.error_message = past.failed \o What,
                      !.end_time = now[2]], fsys, <<>>)
    ELSE PreviewOrAct(op, past, c, fsys, wd, locked, now, dest_path, res,
                      scan.files, FilterByPattern(scan.files, c.pattern))

\* what follows the safety checks in move_files, copy_files and delete_files
ScanFilterAct(op, past, c, fsys, ord, wd, locked, now, source_path, dest_path, res) ==
    FilterAct(op, past, c, fsys, wd, locked, now, dest_path, res,
              ScanSource(c, fsys, ord, wd, source_path))

\* an abort that reports no reason
Rejected_silent(res, why, fsys) ==
    Returned([res EXCEPT !.success = FALSE], fsys, <<>>)

Rejected(res, why, fsys) ==
    Returned([res EXCEPT !.success = FALSE, !.error_message = why], fsys, <<>>)

\* a move that checks the source directory only
move_files_source_only(c, fsys, ord, wd, homeEnv, locked, now) ==
    LET res         == [FileOpResult EXCEPT !.operation = "move",
                                            !.start_time = now[1]]
        source_path == expand_path(c.source, homeEnv)
        dest_path   == expand_path(c.destination, homeEnv)
    IN  IF ~is_safe_directory(source_path)
        THEN Rejected(res, "Source directory is not safe to operate on", fsys)
        ELSE ScanFilterAct("move",
                 [done |-> "moved", failed |-> "Move operation failed: "],
                 c, fsys, ord, wd, locked, now, source_path, dest_path, res)

move_files(c, fsys, ord, wd, homeEnv, locked, now) ==
    LET res         == [FileOpResult EXCEPT !.operation = "move",
                                            !.start_time = now[1]]
        source_path == expand_path(c.source, homeEnv)
        dest_path   == expand_path(c.destination, homeEnv)
    IN  IF ~is_safe_directory(source_path)
        THEN Rejected(res, "Source directory is not safe to operate on", fsys)
        ELSE IF ~is_safe_directory(dest_path)
        THEN Rejected(res, "Destination directory is not safe to operate on", fsys)
        ELSE ScanFilterAct("move",
                 [done |-> "moved", failed |-> "Move operation failed: "],
                 c, fsys, ord, wd, locked, now, source_path, dest_path, res)

copy_files(c, fsys, ord, wd, homeEnv, locked, now) ==
    LET res         == [FileOpResult EXCEPT !.operation = "copy",
                                            !.start_time = now[1]]
        source_path == expand_path(c.source, homeEnv)
        dest_path   == expand_path(c.destination, homeEnv)
    IN  IF ~is_safe_directory(source_path)
        THEN Rejected(res, "Source directory is not safe to operate on", fsys)
        ELSE IF ~is_safe_directory(dest_path)
        THEN Rejected(res, "Destination directory is not safe to operate on", fsys)
        ELSE ScanFilterAct("copy",
                 [done |-> "copied", failed |-> "Copy operation failed: "],
                 c, fsys, ord, wd, locked, now, source_path, dest_path, res)

delete_files(c, fsys, ord, wd, homeEnv, locked, now) ==
    LET res         == [FileOpResult EXCEPT !.operation = "delete",
                                            !.start_time = now[1]]
        source_path == expand_path(c.source, homeEnv)
    IN  IF ~is_safe_directory(source_path)
        THEN Rejected(res, "Source directory is not safe to operate on", fsys)
        ELSE ScanFilterAct("delete",
                 [done |-> "deleted", failed |-> "Delete operation failed: "],
                 c, fsys, ord, wd, locked, now, source_path, "", res)

\* a handler that checks the safety of the destination itself
create_folder_checks_destination(c, fsys, ord, wd, homeEnv, locked, now) ==
    LET res         == [FileOpResult EXCEPT !.operation = "create_folder",
                                            !.start_time = now[1]]
        folder_path == expand_path(c.destination, homeEnv)
    IN  IF ~is_safe_directory(folder_path)
        THEN Rejected(res, "Parent directory is not safe to operate on", fsys)
        ELSE IF c.dry_run
        THEN Returned([res EXCEPT !.message = "Would create folder: " \o folder_path,
                                   !.success = TRUE], fsys, <<>>)
        ELSE LET made == create_directories(fsys, wd, folder_path)
             IN  IF made.ok
                 THEN Returned([res EXCEPT
                          !.files_affected = 1,
                          !.message = "Successfully created folder: " \o folder_path,
                          !.success = TRUE,
                          !.end_time = now[2]], made.fs, <<>>)
                 ELSE Returned([res EXCEPT
                          !.success = FALSE,
                          !.error_message = "Create folder operation failed: " \o What,
                          !.end_time = now[2]], fsys, <<>>)

create_folder(c, fsys, ord, wd, homeEnv, locked, now) ==
    LET res         == [FileOpResult EXCEPT !.operation = "create_folder",
                                            !.start_time = now[1]]
        folder_path == expand_path(c.destination, homeEnv)
    IN  IF ~is_safe_directory(parent_path(folder_path))
        THEN Rejected(res, "Parent directory is not safe to operate on", fsys)
        ELSE IF c.dry_run
        THEN Returned([res EXCEPT !.message = "Would create folder: " \o folder_path,
                                   !.success = TRUE], fsys, <<>>)
        ELSE LET made == create_directories(fsys, wd, folder_path)
             IN  IF made.ok
                 THEN Returned([res EXCEPT
                          !.files_affected = 1,
                          !.message = "Successfully created folder: " \o folder_path,
                          !.success = TRUE,
                          !.end_time = now[2]], made.fs, <<>>)
                 ELSE Returned([res EXCEPT
                          !.success = FALSE,
                          !.error_message = "Create folder operation failed: " \o What,
                          !.end_time = now[2]], fsys, <<>>)

execute_command(c, fsys, ord, wd, homeEnv, locked, now) ==
    IF ~validate_command(c)
    THEN Rejected(FileOpResult, "Invalid command", fsys)
    ELSE IF c.action = "move" THEN move_files(c, fsys, ord, wd, homeEnv, locked, now)
    ELSE IF c.action = "copy" THEN copy_files(c, fsys, ord, wd, homeEnv, locked, now)
    ELSE IF c.action = "delete" THEN delete_files(c, fsys, ord, wd, homeEnv, locked, now)
    ELSE IF c.action = "create_folder"
         THEN create_folder(c, fsys, ord, wd, homeEnv, locked, now)
    ELSE Rejected(FileOpResult, "Unknown action: " \o c.action, fsys)

---------------------------------------------------------------------------
(* The state machine: one process invocation per step.  A behaviour starts *)
(* from one of the initial filesystems and environments, submits a command *)
(* and may submit the same command again, up to MaxRuns invocations.       *)

MaxRuns == 2

\* every name a directory entry can have, in one enumeration order
NameOrder == <<"a.t", "b.t", "c.x", "d", "d.t", "etc", "m", "n", "p", "q", "s">>

Reverse(seq) == [i \in 1..Len(seq) |-> seq[Len(seq) + 1 - i]]

InitialFS(closed) ==
    [dirs  |-> {Root, <<"etc">>, <<"s">>, <<"s", "m">>, <<"s", "n">>, <<"d">>},
     files |-> [n \in {<<"etc", "a.t">>, <<"s", "a.t">>, <<"s", "b.t">>,
                       <<"s", "c.x">>, <<"s", "m", "d.t">>, <<"s", "n", "a.t">>}
                |-> n],                      \* a file's content names its origin
     noaccess |-> closed]

Sources == {"/s", "/etc", "/", "/s/../etc", ".", "~/n", "/s/n/k", "/s/c.x"}
Destinations == {"/d", "/usr", "/d/../etc", "/s/n", "/x"}
Patterns == {"", "*.t", "b.t"}
FolderPaths == {"/d/p/q", "/d", "/etc/q", "/q", "q", "/s/a.t/q", "/s/n/q"}

BatchCommands ==
    {Command(a, p, s, d, dry, FALSE, rec, FALSE) :
        a \in {"move", "copy"}, p \in Patterns, s \in Sources,
        d \in Destinations, dry \in BOOLEAN, rec \in BOOLEAN}
    \cup
    {Command("delete", p, s, "", dry, FALSE, rec, FALSE) :
        p \in Patterns, s \in Sources, dry \in BOOLEAN, rec \in BOOLEAN}

FolderCommands ==
    {Command("create_folder", "", "", d, dry, FALSE, FALSE, FALSE) :
        d \in FolderPaths, dry \in BOOLEAN}

InvalidCommands ==
    {Command("", "", "/s", "/d", FALSE, FALSE, FALSE, FALSE),
     Command("rename", "", "/s", "/d", FALSE, FALSE, FALSE, FALSE),
     Command("move", "*.t", "/s", "", FALSE, FALSE, FALSE, FALSE),
     Command("copy", "", "", "/d", FALSE, FALSE, FALSE, FALSE),
     Command("delete", "", "", "/d", FALSE, FALSE, FALSE, FALSE),
     Command("create_folder", "", "/s", "", FALSE, FALSE, FALSE, FALSE)}

Commands == BatchCommands \cup FolderCommands \cup InvalidCommands

\* files a lock may be held on
Lockable == {<<"s", "a.t">>, <<"s", "b.t">>}

NoCommand == Command("", "", "", "", FALSE, FALSE, FALSE, FALSE)

Init ==
    /\ fs \in {InitialFS({}), InitialFS({<<"s", "n">>})}
    /\ order \in {NameOrder, Reverse(NameOrder)}
    /\ cwd \in {Root, <<"s">>}
    /\ home \in {NoHome, HomeIs("/s")}
    /\ cmd = NoCommand
    /\ failing = {}
    /\ result = FileOpResult
    /\ runs = 0
    /\ fsBefore = fs
    /\ attempts = <<>>
    /\ arg = <<>>
    /\ ret = <<>>

AttemptedNodes(log) == {Stat(fs, cwd, log[i].file).node : i \in 1..Len(log)}

\* high_resolution_clock::now() as the n-th process sees it, in ticks since
\* the epoch: the clock is monotonic, so every reading is later than the
\* epoch and than the readings before it.  A handler reads it at most twice.
Readings(n) == <<2 * n + 1, 2 * n + 2>>

\* one call of execute_command, as main() and the tests make it; every
\* call is a process of its own.  The environment may hold locks on some of
\* the files the batch is about to touch.
Invoke(c) ==
    /\ runs < MaxRuns
    /\ \E unlocked \in {execute_command(c, fs, order, cwd, home, {},
                                        Readings(runs))} :
       \E locked \in SUBSET (Lockable \cap AttemptedNodes(unlocked.attempts)) :
       \E out \in {IF locked = {} THEN unlocked
                   ELSE execute_command(c, fs, order, cwd, home, locked,
                                        Readings(runs))} :
           /\ fs' = out.fs
           /\ result' = out.result
           /\ attempts' = out.attempts
           /\ failing' = locked
    /\ cmd' = c
    /\ runs' = runs + 1
    /\ fsBefore' = fs
    /\ UNCHANGED <<order, cwd, home, arg, ret>>

\* the first invocation takes any command, the later ones repeat it
Submitted == IF runs = 0 THEN Commands ELSE {cmd}

Move ==
    \E c \in Submitted : validate_command(c) /\ c.action = "move" /\ Invoke(c)

Copy ==
    \E c \in Submitted : validate_command(c) /\ c.action = "copy" /\ Invoke(c)

Delete ==
    \E c \in Submitted : validate_command(c) /\ c.action = "delete" /\ Invoke(c)

CreateFolder ==
    \E c \in Submitted :
        validate_command(c) /\ c.action = "create_folder" /\ Invoke(c)

Invalid ==
    \E c \in Submitted : ~validate_command(c) /\ Invoke(c)

Next == Move \/ Copy \/ Delete \/ CreateFolder \/ Invalid

Spec == Init /\ [][Next]_vars

---------------------------------------------------------------------------
(* The library functions called on their own, as the unit tests do: the    *)
(* arguments are drawn from bounded sets, one step makes the call.         *)

\* the handler state while a library function is exercised
Idle ==
    /\ fs = InitialFS({})
    /\ order = NameOrder
    /\ cwd = Root
    /\ home = NoHome
    /\ cmd = NoCommand
    /\ failing = {}
    /\ result = FileOpResult
    /\ runs = 0
    /\ fsBefore = fs
    /\ attempts = <<>>

Call(value) ==
    /\ ret = <<>>
    /\ ret' = <<value>>
    /\ UNCHANGED <<fs, order, cwd, home, cmd, failing, result, runs, fsBefore,
                   attempts, arg>>

MaxNameLen == 3
MaxPatternLen == 3

NameChars == {"a", "A", ".", "\n"}
PatternChars == {"a", ".", "*", "?"}

\* the file names and patterns of the unit tests and of the documentation
ExampleNames ==
    {"a.txt", "A.TXT", "a.txtx", "a.tx", "test_file.txt", "a.png", "x/a.png",
     ".x/a.png", "a+b", "aab", "a(b"}
ExamplePatterns ==
    {"*.txt", "*.jpg", "test_*", "test_file.txt", ".txt", ".png", "**/*.png",
     "**.png", "a+?", "a(*"}

FileNames == StringsUpTo(NameChars, MaxNameLen) \cup ExampleNames
MatchPatterns == StringsUpTo(PatternChars, MaxPatternLen) \cup ExamplePatterns

InitMatch ==
    /\ Idle
    /\ arg \in [filename : FileNames, pattern : MatchPatterns]
    /\ ret = <<>>

MatchesPattern == Call(matches_pattern(arg.filename, arg.pattern))

SpecMatch == InitMatch /\ [][MatchesPattern]_vars

MaxSuffixLen == 2

SuffixChars == {"/", "l", "."}

PathStems ==
    {"", "/", "/bin", "/sbin", "/usr", "/etc", "/var", "/lib", "/opt",
     "/home", "/home/user", "/tmp", "/us", "/Usr", "usr",
     "C:\\", "D:\\", "E:\\", "c:\\", "C:\\Windows", "C:\\Program Files",
     "C:\\Program Files (x86)", "C:\\Users"}

SafetyPaths == {stem \o tail : stem \in PathStems,
                               tail \in StringsUpTo(SuffixChars, MaxSuffixLen)}

InitSafe ==
    /\ Idle
    /\ arg \in [path : SafetyPaths]
    /\ ret = <<>>

IsSafeDirectory == Call(is_safe_directory(arg.path))

SpecSafe == InitSafe /\ [][IsSafeDirectory]_vars

Actions == {"", "move", "copy", "delete", "create_folder", "rename", "MOVE"}

ValidateCommands ==
    {Command(a, p, s, d, dry, force, rec, verbose) :
        a \in Actions, p \in {"", "*.t"}, s \in {"", "/s"}, d \in {"", "/d"},
        dry \in BOOLEAN, force \in BOOLEAN, rec \in BOOLEAN, verbose \in BOOLEAN}

InitValidate ==
    /\ Idle
    /\ arg \in ValidateCommands
    /\ ret = <<>>

ValidateCommand == Call(validate_command(arg))

SpecValidate == InitValidate /\ [][ValidateCommand]_vars

---------------------------------------------------------------------------
(* Properties of the library functions *)

Returned1 == ret # <<>>

\* C6: validate(cmd) is true exactly when the action is move or copy with
\* source and destination both non-empty, or delete with a non-empty source,
\* or create_folder with a non-empty destination; it is false for an empty
\* or unknown action and for a move without destination, and pattern,
\* dry_run, force, recursive and verbose never change the outcome.
ValidateExact ==
    Returned1 =>
        /\ ret[1] =
              \/ arg.action \in {"move", "copy"}
                   /\ arg.source # "" /\ arg.destination # ""
              \/ arg.action = "delete" /\ arg.source # ""
              \/ arg.action = "create_folder" /\ arg.destination # ""
        /\ arg.action \notin {"move", "copy", "delete", "create_folder"}
              => ret[1] = FALSE
        /\ arg.action = "move" /\ arg.destination = "" => ret[1] = FALSE
        /\ \A other \in ValidateCommands :
              /\ other.action = arg.action
              /\ other.source = arg.source
              /\ other.destination = arg.destination
              => validate_command(other) = ret[1]

\* a move with a source, a pattern and flags set, but no destination, rejected
ValidateRejectsMoveWithoutDestination ==
    /\ ret = <<FALSE>>
    /\ arg.action = "move" /\ arg.source # "" /\ arg.destination = ""
    /\ arg.pattern # "" /\ arg.force /\ arg.dry_run

HasWildcard(pattern) == Contains(pattern, "*") \/ Contains(pattern, "?")

\* C8: for a pattern without '*' and '?', matches(f, p) is true if p is
\* empty; otherwise, if p starts with '.', it is true iff f ends with p;
\* otherwise it is true iff f equals p; both comparisons case-sensitive.
PlainPatternMatch ==
    Returned1 /\ ~HasWildcard(arg.pattern) =>
        ret[1] = IF arg.pattern = "" THEN TRUE
                 ELSE IF CharAt(arg.pattern, 1) = "."
                      THEN ends_with(arg.filename, arg.pattern)
                      ELSE arg.filename = arg.pattern

\* an extension pattern accepted a longer name that ends with it
ExtensionMatched ==
    /\ ret = <<TRUE>>
    /\ arg.pattern = ".txt" /\ arg.filename = "a.txt"

\* the wildcard reading of a pattern: '*' any sequence of characters, '?'
\* exactly one character, anything else itself; letters compare without case
RECURSIVE Wildcard(_, _)
Wildcard(f, p) ==
    IF p = "" THEN f = ""
    ELSE IF CharAt(p, 1) = "*"
         THEN Wildcard(f, Substr(p, 2)) \/ (f # "" /\ Wildcard(Substr(f, 2), p))
    ELSE /\ f # ""
         /\ CharAt(p, 1) = "?" \/ ToLower(CharAt(f, 1)) = ToLower(CharAt(p, 1))
         /\ Wildcard(Substr(f, 2), Substr(p, 2))

\* C9: for a pattern with '*' or '?' and no "**", matches(f, p) is true iff
\* the whole of f, compared case-insensitively, matches p with '*' standing
\* for any sequence of characters, '?' for exactly one character and every
\* other character, regex metacharacters included, for itself.
GlobIsWildcard ==
    Returned1 /\ HasWildcard(arg.pattern) /\ ~Contains(arg.pattern, "**") =>
        ret[1] = Wildcard(arg.filename, arg.pattern)

\* C10: in a glob pattern "**" matches any sequence of characters, and
\* matches(f, "**/*.png") is true for every f that ends in ".png".
DoubleStarMatchesAnything ==
    Returned1 /\ Contains(arg.pattern, "**") =>
        /\ Wildcard(arg.filename, arg.pattern) => ret[1] = TRUE
        /\ arg.pattern = "**/*.png" /\ ends_with(arg.filename, ".png")
              => ret[1] = TRUE

Letters == UpperCase \o LowerCase

IsDriveRoot(p) ==
    Len(p) = 3 /\ Contains(Letters, CharAt(p, 1)) /\ SubSeq(p, 2, 3) = ":\\"

DenyList ==
    {"/bin", "/sbin", "/usr", "/etc", "/var", "/lib", "/opt",
     "C:\\Windows", "C:\\Program Files", "C:\\Program Files (x86)"}

\* C7: isSafeDirectory(p) is false exactly when p equals a filesystem root
\* ("/" or a drive root) or the string of p begins with a deny-listed
\* prefix; it is true for every other path.
SafeExactlyOutsideRootsAndDenyList ==
    Returned1 =>
        ret[1] = ~ \/ PathIsSlash(arg.path)
                   \/ IsDriveRoot(arg.path)
                   \/ \E prefix \in DenyList : starts_with(arg.path, prefix)

---------------------------------------------------------------------------
(* Properties of the operation handlers *)

Invoked == runs > 0

IsBatch(c) == validate_command(c) /\ c.action \in {"move", "copy", "delete"}

SourceUnsafe(c) == ~is_safe_directory(expand_path(c.source, home))
DestinationUnsafe(c) == ~is_safe_directory(expand_path(c.destination, home))

\* the safety check of the handler of c is reached and lets the command pass
SafetyPasses(c) ==
    /\ validate_command(c)
    /\ c.action \in {"move", "copy"} => ~SourceUnsafe(c) /\ ~DestinationUnsafe(c)
    /\ c.action = "delete" => ~SourceUnsafe(c)
    /\ c.action = "create_folder" =>
           is_safe_directory(parent_path(expand_path(c.destination, home)))

NothingDone ==
    /\ result.files_scanned = 0
    /\ result.files_matched = 0
    /\ result.files_affected = 0
    /\ result.errors = <<>>
    /\ attempts = <<>>
    /\ fs = fsBefore

\* C1: a move or copy whose expanded source or destination is unsafe, and a
\* delete whose expanded source is unsafe, returns success=false with a
\* non-empty error_message, all three counters 0 and no errors, and leaves
\* the filesystem as it was, whatever the source holds and the pattern is.
UnsafeIsRejectedUntouched ==
    /\ Invoked
    /\ IsBatch(cmd)
    /\ SourceUnsafe(cmd) \/ (cmd.action # "delete" /\ DestinationUnsafe(cmd))
    => /\ result.success = FALSE
       /\ result.error_message # ""
       /\ NothingDone

\* a move of matching files out of a safe directory into /usr was rejected
MoveIntoSystemDirectoryRejected ==
    /\ Invoked
    /\ cmd.action = "move" /\ cmd.source = "/s" /\ cmd.destination = "/usr"
    /\ cmd.pattern = "*.t" /\ ~cmd.dry_run
    /\ result.success = FALSE

\* examining the source directory raises a filesystem error
SourceUnreadable(fsys, c) ==
    c.action # "create_folder"
    /\ StatusThrows(Stat(fsys, cwd, expand_path(c.source, home)))

SameCounts(r1, r2) ==
    r1.files_scanned = r2.files_scanned /\ r1.files_matched = r2.files_matched

\* C2 as stated: a dry-run command leaves the filesystem unchanged and
\* returns files_affected=0, with success=true whenever the safety check
\* passes; run a second time it returns the same files_scanned and
\* files_matched.
DryRunStepAsStated ==
    validate_command(cmd') /\ cmd'.dry_run =>
        /\ fs' = fs
        /\ result'.files_affected = 0
        /\ SafetyPasses(cmd') => result'.success
        /\ Invoked => SameCounts(result', result)

DryRunAlwaysSucceeds == [][DryRunStepAsStated]_vars

\* C2: a dry-run command leaves the filesystem unchanged and returns
\* files_affected=0; it returns success=true whenever the safety check
\* passes and examining the source raises no filesystem error, and
\* success=false with an error_message when it does raise one; run a second
\* time it returns the same files_scanned and files_matched.
DryRunStep ==
    validate_command(cmd') /\ cmd'.dry_run =>
        /\ fs' = fs
        /\ result'.files_affected = 0
        /\ SafetyPasses(cmd') =>
              IF SourceUnreadable(fs, cmd')
              THEN ~result'.success /\ result'.error_message # ""
              ELSE result'.success
        /\ Invoked => SameCounts(result', result)

DryRunPreviews == [][DryRunStep]_vars

\* a dry-run move that matched files has been run twice
DryRunRepeated ==
    /\ runs = 2
    /\ cmd.action = "move" /\ cmd.dry_run
    /\ result.success /\ result.files_matched > 1
    /\ fs = fsBefore

\* the files the scan of the source yields and the pattern keeps, as the
\* filesystem stood when the command was submitted
MatchedBefore ==
    FilterByPattern(
        ScanSource(cmd, fsBefore, order, cwd, expand_path(cmd.source, home)).files,
        cmd.pattern)

\* what a batch must leave behind, given the files that matched and the
\* attempts among them that failed
BatchAccounted(matched, failed) ==
    /\ result.success
    /\ [i \in 1..Len(attempts) |-> attempts[i].file] = matched
    /\ result.files_matched = Len(matched)
    /\ result.files_affected = Len(matched) - Len(failed)
    /\ Len(result.errors) = Len(failed)
    /\ \A k \in 1..Len(failed) : Contains(result.errors[k], failed[k].file)
    /\ \A i \in 1..Len(attempts) :
           Stat(fsBefore, cwd, attempts[i].file).node \in failing
           => ~attempts[i].ok

\* C3: in a non-dry-run move, copy or delete whose safety checks pass, a
\* failing file operation never aborts the batch: every matched file is
\* attempted, success is true, files_affected is the number of matched
\* files whose operation did not fail, and errors holds exactly one entry
\* per failed file, naming it.
BatchSurvivesFailures ==
    /\ Invoked
    /\ ~cmd.dry_run /\ IsBatch(cmd) /\ SafetyPasses(cmd)
    /\ ~SourceUnreadable(fsBefore, cmd)
    => BatchAccounted(MatchedBefore, SelectSeq(attempts, LAMBDA a : ~a.ok))

\* b.t was locked among at least three matched files, and a file after it
\* was still moved
LockedFileSkipped ==
    /\ Invoked
    /\ cmd.action = "move" /\ ~cmd.dry_run
    /\ failing = {<<"s", "b.t">>}
    /\ Len(attempts) >= 3
    /\ result.files_affected = Len(attempts) - 1
    /\ Len(result.errors) = 1 /\ Contains(result.errors[1], "b.t")
    /\ \E i, j \in 1..Len(attempts) : i < j /\ ~attempts[i].ok /\ attempts[j].ok

\* where a path string leads: relative paths start at the working
\* directory, "." stays and ".." goes to the parent
RECURSIVE Follow(_, _)
Follow(cur, segs) ==
    IF segs = <<>> THEN cur
    ELSE Follow(IF Head(segs) = "." THEN cur
                ELSE IF Head(segs) = ".." THEN Parent(cur)
                ELSE Append(cur, Head(segs)),
                Tail(segs))

Resolve(p) ==
    LET expanded == expand_path(p, home)
    IN  Follow(IF starts_with(expanded, "/") THEN Root ELSE cwd,
               SplitPath(expanded, ""))

SystemDirectoryNames == {"bin", "sbin", "usr", "etc", "var", "lib", "opt"}

Protected(node) == node = Root \/ node[1] \in SystemDirectoryNames

\* C4: no move, copy or delete scans or mutates anything when its source or
\* destination resolves (home expansion, then working directory, "." and
\* "..") to a filesystem root or a location under a system directory; the
\* command is rejected with success=false before any file is touched.
ProtectedNeverTouched ==
    /\ Invoked
    /\ IsBatch(cmd)
    /\ Protected(Resolve(cmd.source))
          \/ (cmd.action # "delete" /\ Protected(Resolve(cmd.destination)))
    => /\ result.success = FALSE
       /\ NothingDone

\* C5: every result of execute satisfies: success false implies errors
\* empty, error_message non-empty and files_affected 0; success true
\* implies error_message empty, per-file failures being in errors only.
ResultShape ==
    Invoked =>
        IF result.success
        THEN result.error_message = ""
        ELSE /\ result.errors = <<>>
             /\ result.error_message # ""
             /\ result.files_affected = 0

\* an invalid command came back with a reason and nothing else
InvalidCommandReported ==
    /\ Invoked
    /\ ~validate_command(cmd)
    /\ ~result.success /\ result.error_message = "Invalid command"
    /\ result.errors = <<>>

---------------------------------------------------------------------------
(* The directory scanner called on its own *)

\* directories of the initial tree that may be closed to the process
Closable == {<<"etc">>, <<"s", "m">>, <<"s", "n">>}

ScanPaths == {"/", "/s", "/s/m", ".", "s", "/nope", "/s/a.t"}

InitScan ==
    /\ fs \in {InitialFS(closed) : closed \in SUBSET Closable}
    /\ order \in {NameOrder, Reverse(NameOrder)}
    /\ cwd \in {Root, <<"s">>}
    /\ home = NoHome
    /\ cmd = NoCommand
    /\ failing = {}
    /\ result = FileOpResult
    /\ runs = 0
    /\ fsBefore = fs
    /\ attempts = <<>>
    /\ arg \in [dir_path : ScanPaths]
    /\ ret = <<>>

ScanDirectoryRecursive ==
    Call(scan_directory_recursive(fs, order, cwd, arg.dir_path))

SpecScan == InitScan /\ [][ScanDirectoryRecursive]_vars

IsPrefix(a, b) == Len(a) <= Len(b) /\ SubSeq(b, 1, Len(a)) = a

\* the regular files below the directory top that lie in no closed
\* subdirectory of it
FilesInReach(fsys, top) ==
    {f \in DOMAIN fsys.files :
        /\ IsPrefix(top, f)
        /\ \A k \in (Len(top) + 1)..(Len(f) - 1) :
               SubSeq(f, 1, k) \notin fsys.noaccess}

\* the directory the scan was asked for, when it is one the process can list
ScanTop == Stat(fs, cwd, arg.dir_path)

\* C11: scanRecursive(dir) returns every regular file under dir that is not
\* inside an unreadable subdirectory: such a subdirectory is skipped without
\* an error, and the files of its siblings, enumerated before or after it,
\* are still returned.
RecursiveScanSkipsUnreadable ==
    /\ Returned1
    /\ ScanTop.kind = "dir" /\ ScanTop.node \notin fs.noaccess
    => /\ ~ret[1].threw
       /\ {Stat(fs, cwd, ret[1].files[i]).node : i \in 1..Len(ret[1].files)}
              = FilesInReach(fs, ScanTop.node)

---------------------------------------------------------------------------
(* Properties of the scan as the handlers use it *)

ChildFiles(fsys, node) == {f \in DOMAIN fsys.files : Parent(f) = node}

NodesOf(fsys, files) == {Stat(fsys, cwd, files[i]).node : i \in 1..Len(files)}

ZeroCounters ==
    /\ result.files_scanned = 0
    /\ result.files_matched = 0
    /\ result.files_affected = 0

\* a non-recursive move, copy or delete got past its safety check
ScanReached == Invoked /\ IsBatch(cmd) /\ ~cmd.recursive /\ SafetyPasses(cmd)

\* C12 as stated: scan(dir) returns exactly the regular files that are
\* immediate children of dir, one entry per file, and the empty sequence
\* when dir does not exist or is not a directory; so a non-recursive move,
\* copy or delete on a missing source returns success=true with all three
\* counters at 0.
ScanAsStated(st, scan) ==
    /\ ~scan.threw
    /\ NodesOf(fsBefore, scan.files) =
           IF st.kind = "dir" THEN ChildFiles(fsBefore, st.node) ELSE {}
    /\ Len(scan.files) = Cardinality(NodesOf(fsBefore, scan.files))
    /\ st.kind = "none" => result.success /\ ZeroCounters

ScanListsChildrenAlways ==
    ScanReached =>
        ScanAsStated(Stat(fsBefore, cwd, expand_path(cmd.source, home)),
                     scan_directory(fsBefore, order, cwd,
                                    expand_path(cmd.source, home)))

\* C12: scan(dir) returns exactly the regular files that are immediate
\* children of dir, one entry per file, when dir is a directory the process
\* can list; it returns the empty sequence when dir does not exist, is not a
\* directory or cannot be listed; when a directory on the way to dir cannot
\* be searched it raises a filesystem error, and the handler returns
\* success=false with an error_message.  A non-recursive move, copy or
\* delete whose safety check passes and whose source is found missing
\* returns success=true with all three counters at 0.
ScanExact(st, scan) ==
    IF StatusThrows(st)
    THEN scan.threw /\ ~result.success /\ result.error_message # ""
    ELSE /\ ~scan.threw
         /\ NodesOf(fsBefore, scan.files) =
                IF st.kind = "dir" /\ st.node \notin fsBefore.noaccess
                THEN ChildFiles(fsBefore, st.node) ELSE {}
         /\ Len(scan.files) = Cardinality(NodesOf(fsBefore, scan.files))
         /\ result.files_scanned = Len(scan.files)
         /\ st.kind = "none" => result.success /\ ZeroCounters

ScanListsChildren ==
    ScanReached =>
        ScanExact(Stat(fsBefore, cwd, expand_path(cmd.source, home)),
                  scan_directory(fsBefore, order, cwd,
                                 expand_path(cmd.source, home)))

\* a delete on a source that does not exist succeeded with nothing counted
MissingSourceScanned ==
    /\ ScanReached
    /\ cmd.action = "delete" /\ ~cmd.dry_run /\ cmd.source = "/s/n/k"
    /\ fsBefore.noaccess = {}
    /\ result.success /\ ZeroCounters

---------------------------------------------------------------------------
(* Properties of create_folder *)

IsCreate(c) ==
    validate_command(c) /\ c.action = "create_folder" /\ ~c.dry_run

ParentSafe(c) ==
    is_safe_directory(parent_path(expand_path(c.destination, home)))

\* the directories a path names on its way from its start to its end
Trail(p) ==
    LET segs == SplitPath(p, "")
    IN  {Follow(IF starts_with(p, "/") THEN Root ELSE cwd, SubSeq(segs, 1, k)) :
            k \in 0..Len(segs)}

\* a directory cannot be made at p: the path runs into a regular file, or
\* through a directory the process may not search
Blocked(fsys, p) ==
    \/ \E n \in Trail(p) : IsFile(fsys, n)
    \/ \E n \in Trail(p) \cap fsys.noaccess : \E m \in Trail(p) : Parent(m) = n /\ m # n

\* C13 as stated: a non-dry-run create_folder checks the parent of the
\* destination and, when the parent is safe, creates the destination with
\* its missing intermediate directories and returns success=true with
\* files_affected=1; run again it returns the same, records no error and
\* leaves the filesystem as the first run left it.
CreateStepAsStated ==
    IsCreate(cmd') =>
        /\ ~ParentSafe(cmd') => ~result'.success /\ fs' = fs
        /\ ParentSafe(cmd') =>
              /\ result'.success /\ result'.files_affected = 1
              /\ fs'.dirs = fs.dirs \cup Trail(expand_path(cmd'.destination, home))
        /\ Invoked /\ ParentSafe(cmd') =>
              result'.errors = <<>> /\ fs' = fs

CreateFolderAlwaysCreates == [][CreateStepAsStated]_vars

\* C13: a non-dry-run create_folder checks the parent of the destination
\* (not the destination) and, when the parent is safe and no regular file
\* or unsearchable directory is in the way, creates the destination with
\* its missing intermediate directories and returns success=true with
\* files_affected=1; when something is in the way it returns success=false
\* with an error_message and creates nothing.  Run again after a success it
\* returns success=true with files_affected=1, records no error and leaves
\* the filesystem as the first run left it.
CreateStep ==
    IsCreate(cmd') =>
        /\ ~ParentSafe(cmd') => ~result'.success /\ fs' = fs
        /\ ParentSafe(cmd') =>
              IF Blocked(fs, expand_path(cmd'.destination, home))
              THEN ~result'.success /\ result'.error_message # "" /\ fs' = fs
              ELSE /\ result'.success /\ result'.files_affected = 1
                   /\ fs'.dirs = fs.dirs \cup Trail(expand_path(cmd'.destination, home))
                   /\ fs'.files = fs.files /\ fs'.noaccess = fs.noaccess
        /\ Invoked /\ result.success =>
              /\ result'.success /\ result'.files_affected = 1
              /\ result'.errors = <<>> /\ fs' = fs

CreateFolderIdempotent == [][CreateStep]_vars

\* /d/p/q was created with its parent /d/p, then created again
FolderCreatedTwice ==
    /\ runs = 2
    /\ IsCreate(cmd) /\ cmd.destination = "/d/p/q"
    /\ result.success /\ result.files_affected = 1
    /\ {<<"d", "p">>, <<"d", "p", "q">>} \subseteq fs.dirs
    /\ fs = fsBefore

---------------------------------------------------------------------------
(* expand_path called on its own *)

MaxPathLen == 3

PathChars == {"~", "/", "a"}

ExpandPaths ==
    StringsUpTo(PathChars, MaxPathLen)
        \cup {"/absolute/path", "relative/path", "~/docs", "./a", "../a"}

InitExpand ==
    /\ fs = InitialFS({})
    /\ order = NameOrder
    /\ cwd \in {Root, <<"s">>}
    /\ home \in {NoHome, HomeIs("/s"), HomeIs("/home/user/")}
    /\ cmd = NoCommand
    /\ failing = {}
    /\ result = FileOpResult
    /\ runs = 0
    /\ fsBefore = fs
    /\ attempts = <<>>
    /\ arg \in [path_string : ExpandPaths]
    /\ ret = <<>>

ExpandPath == Call(expand_path(arg.path_string, home))

SpecExpand == InitExpand /\ [][ExpandPath]_vars

\* path::is_absolute() on a POSIX build
IsAbsolute(p) == starts_with(p, "/")

\* C14: expand_path always returns an absolute path: an absolute input is
\* returned unchanged, a relative input is resolved to an absolute path.
ExpandedIsAbsolute ==
    Returned1 =>
        /\ IsAbsolute(ret[1])
        /\ IsAbsolute(arg.path_string) => ret[1] = arg.path_string
---------------------------------------------------------------------------
(* The timestamps of a result.                                             *)

\* a handler ran: execute_command dispatched the command
Handled == Invoked /\ validate_command(cmd)

\* the readings the clock gave to the invocation that has just returned
ReadingsOfLastRun == Readings(runs - 1)

\* C15: every result a handler returns carries both timestamps, set by that
\* operation, with start_time <= end_time, whatever the return path: normal
\* completion, dry-run preview, safety-check rejection or caught exception.
TimestampsOnEveryReturn ==
    Handled =>
        /\ result.start_time <= result.end_time
        /\ result.start_time = ReadingsOfLastRun[1]
        /\ result.end_time = ReadingsOfLastRun[2]

\* the return paths that leave the try block early
EarlyReturn == ~SafetyPasses(cmd) \/ (cmd.dry_run /\ result.success)

TimestampsUnlessEarly == (Handled /\ ~EarlyReturn) => TimestampsOnEveryReturn

EndTimeUnsetWhenEarly ==
    (Handled /\ EarlyReturn) =>
        result.end_time = Epoch /\ result.start_time > result.end_time
---------------------------------------------------------------------------
(* The counters of a batch result.                                         *)

\* the files the scan of the source returned to the invocation just made
ScanBefore ==
    ScanSource(cmd, fsBefore, order, cwd, expand_path(cmd.source, home)).files

\* where a file stands in a list that holds it
PositionIn(files, f) == CHOOSE i \in 1..Len(files) : files[i] = f

\* the attempts follow the scan: each attempted file is in the scan, and a
\* later attempt is about a file later in the scan, so no file comes twice
InScanOrder(log, scan) ==
    /\ \A i \in 1..Len(log) : \E k \in 1..Len(scan) : scan[k] = log[i].file
    /\ \A i, j \in 1..Len(log) :
           i < j => PositionIn(scan, log[i].file) < PositionIn(scan, log[j].file)

\* the matched files of the scan are the attempted files, nothing more
EachMatchedAttempted(log, scan) ==
    \A k \in 1..Len(scan) :
        matches_pattern(filename(scan[k]), cmd.pattern)
        <=> \E i \in 1..Len(log) : log[i].file = scan[k]

\* the entries of errors are about the failed attempts, in their order
ErrorsFollow(log) ==
    LET failed == SelectSeq(log, LAMBDA a : ~a.ok)
    IN  /\ Len(result.errors) = Len(failed)
        /\ \A k \in 1..Len(failed) :
               Contains(result.errors[k], " " \o failed[k].file \o ": ")

BatchRan == Invoked /\ IsBatch(cmd) /\ result.success /\ ~cmd.dry_run

\* C16: in every result of move, copy or delete files_matched <=
\* files_scanned; and when the batch ran (success, no dry run) each matched
\* file is attempted exactly once, in scan order, so that files_affected +
\* |errors| = files_matched and the entries of errors stand in the order
\* their files have in the scan.
CountersConsistent ==
    /\ (Invoked /\ IsBatch(cmd)) =>
           result.files_matched <= result.files_scanned
    /\ BatchRan =>
           /\ result.files_scanned = Len(ScanBefore)
           /\ result.files_matched = Len(attempts)
           /\ InScanOrder(attempts, ScanBefore)
           /\ EachMatchedAttempted(attempts, ScanBefore)
           /\ result.files_affected + Len(result.errors) = result.files_matched
           /\ ErrorsFollow(attempts)

\* a recursive batch under the reverse listing order: fewer files matched
\* than scanned, b.t failed before a.t, and other files went through
TwoFailuresInScanOrder ==
    /\ BatchRan
    /\ order = Reverse(NameOrder)
    /\ result.files_matched < result.files_scanned
    /\ result.files_affected >= 1
    /\ Len(result.errors) = 2
    /\ Contains(result.errors[1], "/s/b.t")
    /\ Contains(result.errors[2], "/s/a.t")
---------------------------------------------------------------------------
(* What a move or copy leaves in the destination directory.                *)

MovedOrCopied == BatchRan /\ cmd.action \in {"move", "copy"}

\* dest_path / file.filename(), as the filesystem stands after the batch
PlaceOf(file) ==
    Stat(fs, cwd, PathAppend(expand_path(cmd.destination, home), filename(file)))

\* the content the file had when the batch began
OwnContent(file) == fsBefore.files[Stat(fsBefore, cwd, file).node]

\* the files the batch counted in files_affected
Affected == {attempts[i].file : i \in {k \in 1..Len(attempts) : attempts[k].ok}}

KeepsOwnContent(file) ==
    /\ PlaceOf(file).kind = "file"
    /\ fs.files[PlaceOf(file).node] = OwnContent(file)

\* C17: after a move or copy that ran, every file counted in files_affected
\* is in the destination directory under its own filename with its own
\* content, in recursive mode too, so that the number of batch files in the
\* destination equals files_affected.
NoOverwriteWithinBatch ==
    MovedOrCopied =>
        /\ \A f \in Affected : KeepsOwnContent(f)
        /\ Cardinality({PlaceOf(f).node : f \in Affected}) = result.files_affected

NoOverwriteWhenFlat == (MovedOrCopied /\ ~cmd.recursive) => NoOverwriteWithinBatch
=============================================================================
